---- MODULE Spec2Model ----
(***************************************************************************)
(* Model of the sandboxed execution engine of openscripty:                 *)
(*   scripty/services/code_executor.py   (event/output mode)               *)
(*   maketools/services/code_executor.py (typed-function mode)             *)
(*   scripty/tools/code_executor.py      (the execute_code tool)           *)
(*   maketools/agents/tester.py          (the generate-and-test loop)      *)
(*   inspect_function.py                 (introspection of a typed function)*)
(*   maketools/tools/files.py            (cat_file and run_bash_command)   *)
(*   scripty/controllers/base.py         (the agent's event stream)        *)
(*   scripty/services/script.py          (stored scripts)                  *)
(* Text (stdout, program arguments) is modelled as sequences of one-       *)
(* character strings, so that str.split, json.dumps and json.loads are     *)
(* computed character by character.                                        *)
(***************************************************************************)
EXTENDS Integers, Sequences, FiniteSets, TLC

VARIABLES
    op,        \* the operation called: "run_code", "tool_run_code", "run_test",
               \* "test_code_with_ai" or "inspect_function" ("none": no call)
    pc,        \* position of the caller: "start", "awaiting", "done"
    decls,     \* declared inputs of the script / parameters of the tool's run
    args,      \* the argument map of the call (name -> value)
    spawns,    \* number of calls to asyncio.create_subprocess_exec
    proc,      \* the child process: "none", "checking", "running", "exited", "failed"
    prints,    \* number of texts the child has printed
    returncode,  \* return code of the child
    stdout,    \* captured standard output (characters)
    stderr,    \* captured standard error
    sent,      \* the value serialized by the wrapper's postamble, if any
    result,    \* outcome of the call
    tmpfile,   \* whether the temporary test program exists on disk
    outputs,   \* declared outputs of the script (names)
    fragment,  \* the code of the unit: "generated" (any code) or "function_simple"
    tester,    \* position of test_code_with_ai: "none", "loop", "testing", "returned", "raised"
    iteration, \* iterations of the loop of test_code_with_ai that have completed
    tests_run, \* number of calls of run_test made by test_code_with_ai
    code_result,  \* the last TestResult received by test_code_with_ai
    cwd,       \* working directory the child was started in
    \* concurrent executions in one workspace
    execs,     \* the executions: position, declared output, what the fragment did, result
    disk,      \* content of the files of the workspace directory
    \* _run_bash_command_impl
    command,   \* the command (characters)
    run_calls, \* number of calls of subprocess.run
    bash_result,  \* what _run_bash_command_impl returned or raised
    \* _cat_file_impl
    file_lines,   \* f.readlines(): the lines of the file
    line_start,
    line_end,
    cat_result,   \* what _cat_file_impl returned
    \* update_conversation_with_agent
    current_tool_name,
    calls,     \* names of the tool calls whose tool_call_item has been streamed
    arrived,   \* tool calls whose tool_call_output_item has been streamed
    emitted,   \* number of tool_call_output events yielded for each tool call
    stream,    \* the generator: "open" or "raised"
    \* ScriptService
    scripts,   \* the stored scripts (id -> script)
    response,  \* outcome of the last create_script / update_script
    \* pydantic_auto_convert.wrapper
    signature, \* the parameters of the wrapped function
    argument_object,  \* the flat argument object
    kwargs     \* the converted keyword arguments, or the exception raised

enginevars == <<op, pc, decls, args, spawns, proc, prints, returncode, stdout, stderr,
                sent, result, tmpfile, outputs, fragment, tester, iteration, tests_run,
                code_result, cwd>>
filevars == <<execs, disk>>
bashvars == <<command, run_calls, bash_result>>
catvars == <<file_lines, line_start, line_end, cat_result>>
streamvars == <<current_tool_name, calls, arrived, emitted, stream>>
scriptvars == <<scripts, response>>
convertvars == <<signature, argument_object, kwargs>>
auxvars == <<filevars, bashvars, catvars, streamvars, scriptvars, convertvars>>

vars == <<enginevars, auxvars>>

(***************************************************************************)
(* Bounds of the model.                                                    *)
(***************************************************************************)
MaxPrints == 3      \* texts printed by a fragment in the codec specification
MaxNoise == 1       \* texts printed by a fragment in the call specification
MaxInputs == 2      \* declared inputs of a script
MaxListLen == 2     \* elements of an encoded list
MaxCallers == 2     \* concurrent executions in one workspace
MaxPieces == 3      \* texts a bash command is made of
MaxFileLines == 250 \* lines of a file read by cat_file
MaxCalls == 3       \* tool calls of one agent run
MaxScriptInputs == 1  \* inputs of a stored script
MaxEntries == 2     \* entries of an argument object

(***************************************************************************)
(* Sentinels of the wire protocol.                                         *)
(***************************************************************************)
start_token == <<"<", "$", "o", "u", "t", "p", "u", "t", ">">>
end_token == <<"<", "/", "$", "o", "u", "t", "p", "u", "t", ">">>

(***************************************************************************)
(* Sequence helpers.                                                       *)
(***************************************************************************)
SubSeqFrom(s, i) == IF i > Len(s) THEN <<>> ELSE SubSeq(s, i, Len(s))

IsAt(s, t, i) ==
    /\ i >= 1
    /\ i + Len(t) - 1 <= Len(s)
    /\ \A k \in 1..Len(t) : s[i + k - 1] = t[k]

\* position of the first occurrence of t in s at or after i, 0 when none
Find(s, t, i) ==
    LET C == {j \in i..(Len(s) - Len(t) + 1) : IsAt(s, t, j)}
    IN IF C = {} THEN 0 ELSE CHOOSE j \in C : \A k \in C : j <= k

Contains(s, t) == Find(s, t, 1) # 0

\* Python str.split(sep): the pieces between successive occurrences of sep
RECURSIVE PySplit(_, _)
PySplit(s, sep) ==
    LET j == Find(s, sep, 1)
    IN IF j = 0 THEN <<s>>
       ELSE <<SubSeq(s, 1, j - 1)>> \o PySplit(SubSeqFrom(s, j + Len(sep)), sep)

(***************************************************************************)
(* JSON values.  Every value is a record of the same shape so that any two *)
(* values can be compared: t is the kind, n the integer, s the characters  *)
(* of a string (or the lexeme of a float), ks the keys of a map in         *)
(* insertion order, items the elements of a list or the values of a map.   *)
(***************************************************************************)
JV(t, n, s, ks, items) == [t |-> t, n |-> n, s |-> s, ks |-> ks, items |-> items]
JNull == JV("null", 0, <<>>, <<>>, <<>>)
JBool(b) == JV(IF b THEN "true" ELSE "false", 0, <<>>, <<>>, <<>>)
JNum(n) == JV("num", n, <<>>, <<>>, <<>>)
JFloat(lexeme) == JV("float", 0, lexeme, <<>>, <<>>)
JConst(name) == JV(name, 0, <<>>, <<>>, <<>>)
JStr(s) == JV("str", 0, s, <<>>, <<>>)
JList(items) == JV("list", 0, <<>>, <<>>, items)
JMap(ks, items) == JV("map", 0, <<>>, ks, items)

Digits == <<"0", "1", "2", "3", "4", "5", "6", "7", "8", "9">>
DigitSet == {Digits[i] : i \in 1..10}
DigitVal(c) == (CHOOSE i \in 1..10 : Digits[i] = c) - 1

RECURSIVE NatToChars(_)
NatToChars(n) == IF n < 10 THEN <<Digits[n + 1]>>
                 ELSE NatToChars(n \div 10) \o <<Digits[(n % 10) + 1]>>

IntToChars(n) == IF n < 0 THEN <<"-">> \o NatToChars(0 - n) ELSE NatToChars(n)

(***************************************************************************)
(* json.dumps with the default separators (", " and ": ").                 *)
(***************************************************************************)
EscapeChar(c) ==
    CASE c = "\"" -> <<"\\", "\"">>
      [] c = "\\" -> <<"\\", "\\">>
      [] c = "\n" -> <<"\\", "n">>
      [] c = "\t" -> <<"\\", "t">>
      [] c = "\r" -> <<"\\", "r">>
      [] OTHER -> <<c>>

RECURSIVE EscapeChars(_)
EscapeChars(s) == IF s = <<>> THEN <<>> ELSE EscapeChar(Head(s)) \o EscapeChars(Tail(s))

EncodeString(s) == <<"\"">> \o EscapeChars(s) \o <<"\"">>

RECURSIVE JsonDumps(_)
RECURSIVE DumpItems(_, _)
RECURSIVE DumpPairs(_, _, _)
DumpItems(items, i) ==
    IF i > Len(items) THEN <<>>
    ELSE (IF i > 1 THEN <<",", " ">> ELSE <<>>) \o JsonDumps(items[i]) \o DumpItems(items, i + 1)

DumpPairs(ks, items, i) ==
    IF i > Len(ks) THEN <<>>
    ELSE (IF i > 1 THEN <<",", " ">> ELSE <<>>) \o EncodeString(ks[i]) \o <<":", " ">>
         \o JsonDumps(items[i]) \o DumpPairs(ks, items, i + 1)

JsonDumps(v) ==
    CASE v.t = "null" -> <<"n", "u", "l", "l">>
      [] v.t = "true" -> <<"t", "r", "u", "e">>
      [] v.t = "false" -> <<"f", "a", "l", "s", "e">>
      [] v.t = "num" -> IntToChars(v.n)
      [] v.t = "float" -> v.s
      [] v.t = "NaN" -> <<"N", "a", "N">>
      [] v.t = "str" -> EncodeString(v.s)
      [] v.t = "list" -> <<"[">> \o DumpItems(v.items, 1) \o <<"]">>
      [] v.t = "map" -> <<"{">> \o DumpPairs(v.ks, v.items, 1) \o <<"}">>

(***************************************************************************)
(* json.loads: the scanner of the json module, returning                   *)
(* [ok, val, end] where end is the position after the scanned value.       *)
(***************************************************************************)
Ws == {" ", "\t", "\n", "\r"}
Fail == [ok |-> FALSE, val |-> JNull, end |-> 0]
Ok(v, e) == [ok |-> TRUE, val |-> v, end |-> e]

RECURSIVE SkipWs(_, _)
SkipWs(s, i) == IF i <= Len(s) /\ s[i] \in Ws THEN SkipWs(s, i + 1) ELSE i

Unescape(c) ==
    CASE c = "\"" -> "\""
      [] c = "\\" -> "\\"
      [] c = "/" -> "/"
      [] c = "n" -> "\n"
      [] c = "t" -> "\t"
      [] c = "r" -> "\r"
      [] OTHER -> "?"

\* py_scanstring in strict mode; i is the position after the opening quote.
\* (\b, \f and \uXXXX escapes are outside the alphabet of the model.)
RECURSIVE ScanString(_, _, _)
ScanString(s, i, acc) ==
    IF i > Len(s) THEN Fail
    ELSE IF s[i] = "\"" THEN Ok(JStr(acc), i + 1)
    ELSE IF s[i] = "\\" THEN
        IF i + 1 > Len(s) \/ Unescape(s[i + 1]) = "?" THEN Fail
        ELSE ScanString(s, i + 2, Append(acc, Unescape(s[i + 1])))
    ELSE IF s[i] \in {"\n", "\t", "\r"} THEN Fail
    ELSE ScanString(s, i + 1, Append(acc, s[i]))

RECURSIVE ScanDigits(_, _)
ScanDigits(s, i) == IF i <= Len(s) /\ s[i] \in DigitSet THEN ScanDigits(s, i + 1) ELSE i

RECURSIVE DigitsToNat(_, _, _, _)
DigitsToNat(s, i, e, acc) ==
    IF i >= e THEN acc ELSE DigitsToNat(s, i + 1, e, acc * 10 + DigitVal(s[i]))

\* NUMBER_RE = (-?(?:0|[1-9]\d*))(\.\d+)?([eE][-+]?\d+)? matched at i
ScanNumber(s, i) ==
    LET neg == i <= Len(s) /\ s[i] = "-"
        d == IF neg THEN i + 1 ELSE i
        ie == IF d <= Len(s) /\ s[d] = "0" THEN d + 1 ELSE ScanDigits(s, d)
        fd == IF ie <= Len(s) /\ s[ie] = "." THEN ScanDigits(s, ie + 1) ELSE ie
        fe == IF fd > ie + 1 THEN fd ELSE ie
        sg == IF fe + 1 <= Len(s) /\ s[fe] \in {"e", "E"} /\ s[fe + 1] \in {"-", "+"}
              THEN fe + 2 ELSE fe + 1
        xd == IF fe <= Len(s) /\ s[fe] \in {"e", "E"} THEN ScanDigits(s, sg) ELSE fe
        xe == IF fe <= Len(s) /\ s[fe] \in {"e", "E"} /\ xd > sg THEN xd ELSE fe
        n == DigitsToNat(s, d, ie, 0)
    IN IF ie = d THEN Fail
       ELSE IF xe > ie THEN Ok(JFloat(SubSeq(s, i, xe - 1)), xe)
       ELSE Ok(JNum(IF neg THEN 0 - n ELSE n), ie)

RECURSIVE ScanOnce(_, _)
RECURSIVE ParseArray(_, _, _)
RECURSIVE ParseObject(_, _, _, _)

\* dict(pairs): a repeated key keeps its first position and its last value
PutKey(ks, vs, k, v) ==
    IF \E j \in 1..Len(ks) : ks[j] = k
    THEN <<ks, [j \in 1..Len(vs) |-> IF ks[j] = k THEN v ELSE vs[j]]>>
    ELSE <<Append(ks, k), Append(vs, v)>>

\* JSONArray after an element r ending before position j: "]" or ","
ArrayNext(s, r, j, acc) ==
    IF ~r.ok THEN Fail
    ELSE IF j > Len(s) THEN Fail
    ELSE IF s[j] = "]" THEN Ok(JList(Append(acc, r.val)), j + 1)
    ELSE IF s[j] = "," THEN ParseArray(s, SkipWs(s, j + 1), Append(acc, r.val))
    ELSE Fail

ArrayElement(s, r, acc) == ArrayNext(s, r, SkipWs(s, r.end), acc)

\* JSONArray: i is the position of the next element
ParseArray(s, i, acc) == ArrayElement(s, ScanOnce(s, i), acc)

\* JSONObject after the pair (k, r), at position m: "}" or ","
ObjectNext(s, m, kv) ==
    IF m > Len(s) THEN Fail
    ELSE IF s[m] = "}" THEN Ok(JMap(kv[1], kv[2]), m + 1)
    ELSE IF s[m] = "," THEN ParseObject(s, SkipWs(s, m + 1), kv[1], kv[2])
    ELSE Fail

ObjectValue(s, k, r, ks, vs) ==
    IF ~r.ok THEN Fail
    ELSE ObjectNext(s, SkipWs(s, r.end), PutKey(ks, vs, k.val.s, r.val))

\* JSONObject after the key k, at position c: ":" then the value
ObjectColon(s, k, c, ks, vs) ==
    IF ~k.ok THEN Fail
    ELSE IF c > Len(s) \/ s[c] # ":" THEN Fail
    ELSE ObjectValue(s, k, ScanOnce(s, SkipWs(s, c + 1)), ks, vs)

ObjectKey(s, k, ks, vs) == ObjectColon(s, k, SkipWs(s, k.end), ks, vs)

\* JSONObject: i is the position where the opening quote of a key is expected
ParseObject(s, i, ks, vs) ==
    IF i > Len(s) \/ s[i] # "\"" THEN Fail
    ELSE ObjectKey(s, ScanString(s, i + 1, <<>>), ks, vs)

\* the tail of _scan_once: a number, then the constant NaN
NumberOrConstant(s, i, num) ==
    IF num.ok THEN num
    ELSE IF IsAt(s, <<"N", "a", "N">>, i) THEN Ok(JConst("NaN"), i + 3)
    ELSE Fail

\* an opened "{" or "[" with j the position after the following whitespace
ObjectStart(s, j) ==
    IF j <= Len(s) /\ s[j] = "}" THEN Ok(JMap(<<>>, <<>>), j + 1)
    ELSE ParseObject(s, j, <<>>, <<>>)

ArrayStart(s, j) ==
    IF j <= Len(s) /\ s[j] = "]" THEN Ok(JList(<<>>), j + 1)
    ELSE ParseArray(s, j, <<>>)

\* _scan_once of json.scanner
ScanOnce(s, i) ==
    IF i > Len(s) THEN Fail
    ELSE IF s[i] = "\"" THEN ScanString(s, i + 1, <<>>)
    ELSE IF s[i] = "{" THEN ObjectStart(s, SkipWs(s, i + 1))
    ELSE IF s[i] = "[" THEN ArrayStart(s, SkipWs(s, i + 1))
    ELSE IF IsAt(s, <<"n", "u", "l", "l">>, i) THEN Ok(JNull, i + 4)
    ELSE IF IsAt(s, <<"t", "r", "u", "e">>, i) THEN Ok(JBool(TRUE), i + 4)
    ELSE IF IsAt(s, <<"f", "a", "l", "s", "e">>, i) THEN Ok(JBool(FALSE), i + 5)
    ELSE NumberOrConstant(s, i, ScanNumber(s, i))

\* json.loads(s): leading and trailing whitespace allowed, nothing else
LoadsEnd(s, r) ==
    IF ~r.ok THEN Fail
    ELSE IF SkipWs(s, r.end) # Len(s) + 1 THEN Fail
    ELSE r

JsonLoads(s) == LoadsEnd(s, ScanOnce(s, SkipWs(s, 1)))

\* Python equality of decoded values: NaN is not equal to itself
RECURSIVE PyEq(_, _)
PyEq(a, b) ==
    /\ a.t = b.t
    /\ a.t # "NaN"
    /\ a.n = b.n
    /\ a.s = b.s
    /\ Len(a.items) = Len(b.items)
    /\ IF a.t = "map"
       THEN /\ {a.ks[i] : i \in 1..Len(a.ks)} = {b.ks[i] : i \in 1..Len(b.ks)}
            /\ \A i \in 1..Len(a.ks) : \A j \in 1..Len(b.ks) :
                   a.ks[i] = b.ks[j] => PyEq(a.items[i], b.items[j])
       ELSE \A i \in 1..Len(a.items) : PyEq(a.items[i], b.items[i])

(***************************************************************************)
(* Outcome of a call: a returned value or a raised exception.              *)
(*   exc    : the exception class                                          *)
(*   val    : the returned JSON value                                      *)
(*   msg    : the stderr text carried by a RuntimeError                    *)
(*   errors : the lines of a validation error                              *)
(*   verdict: the TestResult returned by run_test                          *)
(***************************************************************************)
NoVerdict == [success |-> FALSE, details |-> <<>>, exit_code |-> 0, out |-> <<>>, err |-> ""]
NoResult == [kind |-> "none", exc |-> "", val |-> JNull, msg |-> "", errors |-> <<>>,
             verdict |-> NoVerdict]
Return(v) == [kind |-> "return", exc |-> "", val |-> v, msg |-> "", errors |-> <<>>,
              verdict |-> NoVerdict]
Raise(e, m, errs) == [kind |-> "raise", exc |-> e, val |-> JNull, msg |-> m, errors |-> errs,
                      verdict |-> NoVerdict]
ReturnVerdict(t) == [kind |-> "return", exc |-> "", val |-> JNull, msg |-> "", errors |-> <<>>,
                     verdict |-> t]

(***************************************************************************)
(* The sentinel extraction at the end of run_code_with_inputs and          *)
(* execute_code:                                                           *)
(*   string_output = out.split(start_token)[1].split(end_token)[0]         *)
(*   outputs_data = json.loads(string_output)                              *)
(***************************************************************************)
string_output(out) == PySplit(PySplit(out, start_token)[2], end_token)[1]

LoadsResult(r) == IF r.ok THEN Return(r.val) ELSE Raise("JSONDecodeError", "", <<>>)

Decode(out) ==
    IF Len(PySplit(out, start_token)) < 2 THEN Raise("IndexError", "", <<>>)
    ELSE LoadsResult(JsonLoads(string_output(out)))

(***************************************************************************)
(* stdout.decode() and stderr.decode(): the child writes bytes.  BadByte   *)
(* stands for a byte sequence that is not valid UTF-8; every other element *)
(* is an ASCII character and decodes to itself.  bytes.decode raises       *)
(* UnicodeDecodeError, a subclass of ValueError, on a BadByte.             *)
(***************************************************************************)
BadByte == "0xFF"

Undecodable(b) == \E i \in 1..Len(b) : b[i] = BadByte

(***************************************************************************)
(* The workspace file system.  A path is [abs, parts]; the directory tree  *)
(* holds the workspace /data/ws1, a sibling workspace and /etc.            *)
(***************************************************************************)
Path(abs, parts) == [abs |-> abs, parts |-> parts]
CONTAINER_DATA_DIRECTORY == Path(TRUE, <<"data">>)
WorkspaceId == Path(FALSE, <<"ws1">>)
Cwd == Path(TRUE, <<"app">>)

Dirs == {<<>>, <<"app">>, <<"data">>, <<"data", "ws1">>, <<"data", "ws2">>, <<"etc">>}
Files == {<<"data", "ws1", "in.csv">>, <<"data", "ws2", "secret.txt">>, <<"etc", "passwd">>}

\* os.path.join(a, b): an absolute b discards a
PathJoin(a, b) == IF b.abs THEN b ELSE Path(a.abs, a.parts \o b.parts)

\* FileService.get_file_directory
get_file_directory(workspace_id) == PathJoin(CONTAINER_DATA_DIRECTORY, workspace_id)

\* resolution of a path by the operating system: ".." needs an existing
\* directory before it; the result is the absolute location or a failure
RECURSIVE Resolve(_, _)
Resolve(cur, rest) ==
    IF rest = <<>> THEN [ok |-> cur \in Dirs \cup Files, at |-> cur]
    ELSE IF cur \notin Dirs THEN [ok |-> FALSE, at |-> cur]
    ELSE IF Head(rest) = ".."
         THEN Resolve(IF cur = <<>> THEN cur ELSE SubSeq(cur, 1, Len(cur) - 1), Tail(rest))
         ELSE Resolve(Append(cur, Head(rest)), Tail(rest))

Locate(p) == Resolve(IF p.abs THEN <<>> ELSE Cwd.parts, p.parts)

\* os.path.exists
PathExists(p) == Locate(p).ok

(***************************************************************************)
(* Declared inputs and argument values.                                    *)
(***************************************************************************)
Names == <<"a", "b", "c", "d">>
ArgumentTypes == {"string", "file"}
Decl(name, type, required) == [name |-> name, type |-> type, value |-> "None", required |-> required]

\* a value of the argument map: absent key, null, a string (a path), an integer
Absent == [k |-> "absent", abs |-> FALSE, parts |-> <<>>, n |-> 0]
None == [k |-> "none", abs |-> FALSE, parts |-> <<>>, n |-> 0]
Str(abs, parts) == [k |-> "str", abs |-> abs, parts |-> parts, n |-> 0]
IntArg(n) == [k |-> "int", abs |-> FALSE, parts |-> <<>>, n |-> n]
StrValues == {Str(FALSE, <<"in.csv">>), Str(FALSE, <<"missing.csv">>),
              Str(TRUE, <<"etc", "passwd">>), Str(FALSE, <<"..", "ws2", "secret.txt">>),
              Str(FALSE, <<>>)}
ArgValues == {Absent, None} \cup StrValues

\* the argument map holds, at the position of a name, the value of that key
NameIndex(name) == CHOOSE i \in 1..Len(Names) : Names[i] = name

\* name in inputs
Has(inputs, name) == inputs[NameIndex(name)].k # "absent"

\* inputs.get(name)
Get(inputs, name) == IF Has(inputs, name) THEN inputs[NameIndex(name)] ELSE None

(***************************************************************************)
(* Validation loop of run_code_with_inputs (event/output mode).            *)
(***************************************************************************)
\* variant: the null check is left out
InputErrorsNoNullCheck(input_data, inputs) ==
    IF input_data.type = "file"
       /\ ~PathExists(PathJoin(get_file_directory(WorkspaceId),
                               Path(Get(inputs, input_data.name).abs,
                                    Get(inputs, input_data.name).parts)))
    THEN <<[kind |-> "file_not_found", what |-> input_data.value]>>
    ELSE <<>>

InputErrors(input_data, inputs) ==
    IF Get(inputs, input_data.name) = None
    THEN <<[kind |-> "not_set", what |-> input_data.name]>>
    ELSE IF input_data.type = "file"
            /\ ~PathExists(PathJoin(get_file_directory(WorkspaceId),
                                    Path(Get(inputs, input_data.name).abs,
                                         Get(inputs, input_data.name).parts)))
    THEN <<[kind |-> "file_not_found", what |-> input_data.value]>>
    ELSE <<>>

\* variant: fail-fast, the loop stops at the first violation
RECURSIVE ValidationErrorsFailFast(_, _, _)
ValidationErrorsFailFast(inputs_data, inputs, i) ==
    IF i > Len(inputs_data) THEN <<>>
    ELSE IF InputErrors(inputs_data[i], inputs) # <<>> THEN InputErrors(inputs_data[i], inputs)
    ELSE ValidationErrorsFailFast(inputs_data, inputs, i + 1)

RECURSIVE ValidationErrors(_, _, _)
ValidationErrors(inputs_data, inputs, i) ==
    IF i > Len(inputs_data) THEN <<>>
    ELSE InputErrors(inputs_data[i], inputs) \o ValidationErrors(inputs_data, inputs, i + 1)

(***************************************************************************)
(* Classification of the test runner's outcome in run_test.                *)
(***************************************************************************)
Upper == <<"A", "B", "C", "D", "E", "F", "G", "H", "I", "J", "K", "L", "M", "N", "O", "P", "Q", "R", "S", "T", "U", "V", "W", "X", "Y", "Z">>
Lower == <<"a", "b", "c", "d", "e", "f", "g", "h", "i", "j", "k", "l", "m", "n", "o", "p", "q", "r", "s", "t", "u", "v", "w", "x", "y", "z">>
LowerChar(c) == IF \E i \in 1..26 : Upper[i] = c
                THEN Lower[CHOOSE i \in 1..26 : Upper[i] = c] ELSE c
\* str.lower()
PyLower(s) == [i \in 1..Len(s) |-> LowerChar(s[i])]

WordChars == {Upper[i] : i \in 1..26} \cup {Lower[i] : i \in 1..26} \cup DigitSet \cup {"_"}

RECURSIVE ScanWord(_, _)
ScanWord(s, i) == IF i <= Len(s) /\ s[i] \in WordChars THEN ScanWord(s, i + 1) ELSE i

\* end of a match of \d+\s+\w+ starting at i, 0 when there is none
CountWordEnd(s, i) ==
    LET d == ScanDigits(s, i)
        w == SkipWs(s, d)
        e == ScanWord(s, w)
    IN IF d > i /\ w > d /\ e > w THEN e ELSE 0

\* end of the longest run of (?:,\s*\d+\s+\w+)* starting at i
RECURSIVE SummaryTail(_, _)
SummaryTail(s, i) ==
    IF i <= Len(s) /\ s[i] = "," /\ CountWordEnd(s, SkipWs(s, i + 1)) # 0
    THEN SummaryTail(s, CountWordEnd(s, SkipWs(s, i + 1)))
    ELSE i

\* re.search(r'(\d+\s+\w+(?:,\s*\d+\s+\w+)*)', out): [found, text]
SummaryMatch(out) ==
    LET C == {i \in 1..Len(out) : CountWordEnd(out, i) # 0}
        i0 == CHOOSE i \in C : \A k \in C : i <= k
    IN IF C = {} THEN [found |-> FALSE, text |-> <<>>]
       ELSE [found |-> TRUE, text |-> SubSeq(out, i0, SummaryTail(out, CountWordEnd(out, i0)) - 1)]

\* re.search(r'(\d+)\s+<word>', out): [found, text] with text the digits
CountMatch(out, word) ==
    LET Hit(i) == /\ ScanDigits(out, i) > i
                  /\ SkipWs(out, ScanDigits(out, i)) > ScanDigits(out, i)
                  /\ IsAt(out, word, SkipWs(out, ScanDigits(out, i)))
        C == {i \in 1..Len(out) : Hit(i)}
        i0 == CHOOSE i \in C : \A k \in C : i <= k
    IN IF C = {} THEN [found |-> FALSE, text |-> <<>>]
       ELSE [found |-> TRUE, text |-> SubSeq(out, i0, ScanDigits(out, i0) - 1)]

FAILED == <<"f", "a", "i", "l", "e", "d">>
PASSED == <<"p", "a", "s", "s", "e", "d">>

\* the if/elif chain on the exit code
ExitCodeDetails(exit_code) ==
    CASE exit_code = 0 -> <<"A", "l", "l", " ", "t", "e", "s", "t", "s", " ", "p", "a", "s", "s", "e", "d">>
      [] exit_code = 1 -> <<"S", "o", "m", "e", " ", "t", "e", "s", "t", "s", " ", "f", "a", "i", "l", "e", "d">>
      [] exit_code = 2 -> <<"T", "e", "s", "t", " ", "e", "x", "e", "c", "u", "t", "i", "o", "n", " ", "w", "a", "s", " ", "i", "n", "t", "e", "r", "r", "u", "p", "t", "e", "d">>
      [] exit_code = 3 -> <<"I", "n", "t", "e", "r", "n", "a", "l", " ", "p", "y", "t", "e", "s", "t", " ", "e", "r", "r", "o", "r">>
      [] exit_code = 4 -> <<"p", "y", "t", "e", "s", "t", " ", "c", "o", "m", "m", "a", "n", "d", " ", "l", "i", "n", "e", " ", "u", "s", "a", "g", "e", " ", "e", "r", "r", "o", "r">>
      [] exit_code = 5 -> <<"N", "o", " ", "t", "e", "s", "t", "s", " ", "w", "e", "r", "e", " ", "c", "o", "l", "l", "e", "c", "t", "e", "d">>
      [] OTHER -> <<"U", "n", "k", "n", "o", "w", "n", " ", "e", "x", "i", "t", " ", "c", "o", "d", "e", ":", " ">> \o IntToChars(exit_code)

\* "Try to extract more detailed information from output"
OutputDetails(out, exit_code, details) ==
    IF out = <<>> THEN details
    ELSE IF Contains(PyLower(out), FAILED) /\ Contains(PyLower(out), PASSED)
         THEN IF SummaryMatch(out).found THEN SummaryMatch(out).text ELSE details
    ELSE IF Contains(PyLower(out), PASSED) /\ exit_code = 0
         THEN IF CountMatch(out, PASSED).found
              THEN CountMatch(out, PASSED).text \o <<" ", "t", "e", "s", "t", "s", " ", "p", "a", "s", "s", "e", "d">>
              ELSE details
    ELSE details

\* "Fallback: if exit code says success but output shows failures, override"
Overridden(out, exit_code) == exit_code = 0 /\ Contains(PyLower(out), FAILED)

\* variant: the count of failures is not looked for
OverrideDetailsNoCount(out) ==
    <<"T", "e", "s", "t", "s", " ", "f", "a", "i", "l", "e", "d", " ", "(", "d", "e", "t", "e", "c", "t", "e", "d", " ", "f", "r", "o", "m", " ", "o", "u", "t", "p", "u", "t", ")">>

OverrideDetails(out) ==
    IF CountMatch(out, FAILED).found
    THEN CountMatch(out, FAILED).text \o <<" ", "t", "e", "s", "t", "s", " ", "f", "a", "i", "l", "e", "d">>
    ELSE <<"T", "e", "s", "t", "s", " ", "f", "a", "i", "l", "e", "d", " ", "(", "d", "e", "t", "e", "c", "t", "e", "d", " ", "f", "r", "o", "m", " ", "o", "u", "t", "p", "u", "t", ")">>

\* variant: an output that reports passes and no failure counts as a success
TestResultTrustingOutput(out, err, exit_code) ==
    [success |-> \/ exit_code = 0 /\ ~Overridden(out, exit_code)
                 \/ Contains(PyLower(out), PASSED) /\ ~Contains(PyLower(out), FAILED),
     details |-> IF Overridden(out, exit_code) THEN OverrideDetails(out)
                 ELSE OutputDetails(out, exit_code, ExitCodeDetails(exit_code)),
     exit_code |-> exit_code,
     out |-> out,
     err |-> err]

TestResult(out, err, exit_code) ==
    [success |-> exit_code = 0 /\ ~Overridden(out, exit_code),
     details |-> IF Overridden(out, exit_code) THEN OverrideDetails(out)
                 ELSE OutputDetails(out, exit_code, ExitCodeDetails(exit_code)),
     exit_code |-> exit_code,
     out |-> out,
     err |-> err]

(***************************************************************************)
(* Texts and values the generated code is drawn from.                      *)
(***************************************************************************)
Debug == <<"d", "e", "b", "u", "g", "\n">>
Binary == <<BadByte>>
Noise == <<"\n", "n", "o", "i", "s", "e">>
Payload == <<" ", "{", "\"", "a", "\"", ":", "1", "}", " ">>
Span == start_token \o Payload \o end_token
CodecPieces == {Debug, Noise, Payload, Span, start_token, end_token}
CallPieces == {Debug, Span, Binary}

StrPool == {<<>>, <<"a">>, <<"\"">>, <<"\\">>, <<"\n">>, start_token, end_token}
Scalars == {JNull, JBool(TRUE), JBool(FALSE), JNum(0), JNum(1), JNum(0 - 1), JNum(120)}
           \cup {JStr(x) : x \in StrPool}
Elems == {JNull, JNum(1), JStr(<<"a">>), JStr(end_token)}
Lists == UNION {{JList(f) : f \in [1..n -> Elems]} : n \in 0..MaxListLen}
Nested == Elems \cup {JList(<<JNum(1)>>), JMap(<<<<"b">>>>, <<JNull>>)}
Keys == {<<"a">>, <<"\"">>, end_token}
Maps == {JMap(<<>>, <<>>)}
        \cup {JMap(<<k>>, <<e>>) : k \in Keys, e \in Nested}
        \cup {JMap(<<<<"a">>, <<"b">>>>, <<e1, e2>>) : e1 \in Elems, e2 \in Elems}
CodecValues == Scalars \cup Lists \cup Maps
CallValues == {JMap(<<>>, <<>>), JMap(<<<<"o", "u", "t">>>>, <<JNum(1)>>), JNum(5),
               JMap(<<<<"o", "u", "t">>, <<"x">>>>, <<JNull, JNum(1)>>)}
ToolValues == CallValues \cup {JNum(n) : n \in 4..6}

ExitCodes == {0, 1, 0 - 9}
ErrTexts == {"", "Traceback", BadByte}

TestPieces == {<<"3", " ", "f", "a", "i", "l", "e", "d", ",", " ", "2", " ", "p", "a", "s", "s", "e", "d">>,
               <<"2", " ", "p", "a", "s", "s", "e", "d", " ", "i", "n", " ", "0", ".", "0", "1", "s">>,
               <<"t", "e", "s", "t", "_", "f", "a", "i", "l", "e", "d", "_", "l", "o", "g", "i", "n", " ", "P", "A", "S", "S", "E", "D", "\n">>,
               <<"c", "o", "l", "l", "e", "c", "t", "e", "d", " ", "2", " ", "i", "t", "e", "m", "s", "\n",
                 "3", " ", "f", "a", "i", "l", "e", "d", ",", " ", "2", " ", "p", "a", "s", "s", "e", "d">>,
               Binary}
RunnerExitCodes == {0, 1, 2, 3, 4, 5, 7, 0 - 9}

DeclSeqs(types, reqs) ==
    UNION {{[i \in 1..n |-> Decl(Names[i], ty[i], rq[i])] :
               ty \in [1..n -> types], rq \in [1..n -> reqs]} : n \in 0..MaxInputs}

(***************************************************************************)
(* Event/output mode: scripty CodeExecutorService.run_code_with_inputs up  *)
(* to its first suspension (validation, then the spawn).                   *)
(***************************************************************************)
run_code_with_inputs ==
    /\ op = "run_code"
    /\ pc = "start"
    /\ LET errors == ValidationErrors(decls, args, 1)
       IN IF Len(errors) > 0
          THEN /\ result' = Raise("ValueError", "", errors)
               /\ pc' = "done"
               /\ UNCHANGED <<spawns, proc>>
          ELSE /\ spawns' = spawns + 1
               /\ \E started \in BOOLEAN :
                     IF started
                     THEN /\ proc' = "running"
                          /\ pc' = "awaiting"
                          /\ UNCHANGED result
                     ELSE /\ proc' = "failed"
                          /\ pc' = "done"
                          /\ result' = Raise("OSError", "", <<>>)
    /\ UNCHANGED <<op, decls, args, prints, returncode, stdout, stderr, sent, tmpfile>>
    /\ UNCHANGED <<outputs, fragment, tester, iteration, tests_run, code_result>>
    /\ cwd' = IF spawns' > spawns THEN get_file_directory(WorkspaceId) ELSE cwd
    /\ UNCHANGED auxvars

\* the fragment prints a text
FragmentPrint(p, limit) ==
    /\ op \in {"run_code", "tool_run_code"}
    /\ fragment = "generated"
    /\ proc = "running"
    /\ prints < limit
    /\ stdout' = stdout \o p
    /\ prints' = prints + 1
    /\ UNCHANGED <<op, pc, decls, args, spawns, proc, returncode, stderr, sent, result, tmpfile>>
    /\ UNCHANGED <<outputs, fragment, tester, iteration, tests_run, code_result>>
    /\ UNCHANGED <<cwd, auxvars>>

\* the fragment ends the process itself: sys.exit, an uncaught exception, a
\* signal; function_simple.run does neither of the first two
FragmentExit(code, err) ==
    /\ op \in {"run_code", "tool_run_code"}
    /\ proc = "running"
    /\ fragment = "function_simple" => code < 0
    /\ proc' = "exited"
    /\ returncode' = code
    /\ stderr' = err
    /\ UNCHANGED <<op, pc, decls, args, spawns, prints, stdout, sent, result, tmpfile>>
    /\ UNCHANGED <<outputs, fragment, tester, iteration, tests_run, code_result>>
    /\ UNCHANGED <<cwd, auxvars>>

\* the fragment runs to its end with `output` bound to v; postamble of
\* CODE_WRAPPER_TEMPLATE: print('<$output>'); print(json.dumps(output)); print('</$output>')
Postamble(v) ==
    /\ op = "run_code"
    /\ proc = "running"
    /\ stdout' = stdout \o start_token \o <<"\n">> \o JsonDumps(v) \o <<"\n">>
                        \o end_token \o <<"\n">>
    /\ sent' = [has |-> TRUE, val |-> v]
    /\ proc' = "exited"
    /\ returncode' = 0
    /\ UNCHANGED <<op, pc, decls, args, spawns, prints, stderr, result, tmpfile>>
    /\ UNCHANGED <<outputs, fragment, tester, iteration, tests_run, code_result>>
    /\ UNCHANGED <<cwd, auxvars>>

\* what follows `await result.communicate()`: both streams are decoded,
\* then the return code is tested, then the result span is extracted
AfterCommunicate ==
    IF Undecodable(stdout) \/ stderr = BadByte THEN Raise("UnicodeDecodeError", "", <<>>)
    ELSE IF returncode # 0 THEN Raise("RuntimeError", stderr, <<>>)
    ELSE Decode(stdout)

\* variant: a failed run is retried once
run_code_with_inputs_done_retry ==
    /\ op = "run_code"
    /\ pc = "awaiting"
    /\ proc = "exited"
    /\ IF AfterCommunicate.kind = "raise" /\ spawns < 2
       THEN /\ spawns' = spawns + 1
            /\ proc' = "running"
            /\ UNCHANGED <<pc, result>>
       ELSE /\ result' = AfterCommunicate
            /\ pc' = "done"
            /\ UNCHANGED <<spawns, proc>>
    /\ UNCHANGED <<op, decls, args, prints, returncode, stdout, stderr, sent, tmpfile>>
    /\ UNCHANGED <<outputs, fragment, tester, iteration, tests_run, code_result>>
    /\ UNCHANGED <<cwd, auxvars>>

run_code_with_inputs_done ==
    /\ op = "run_code"
    /\ pc = "awaiting"
    /\ proc = "exited"
    /\ result' = AfterCommunicate
    /\ pc' = "done"
    /\ UNCHANGED <<op, decls, args, spawns, proc, prints, returncode, stdout, stderr, sent, tmpfile>>
    /\ UNCHANGED <<outputs, fragment, tester, iteration, tests_run, code_result>>
    /\ UNCHANGED <<cwd, auxvars>>

(***************************************************************************)
(* Typed-function mode: maketools run_code_with_inputs and execute_code.   *)
(***************************************************************************)
tool_run_code_with_inputs ==
    /\ op = "tool_run_code"
    /\ pc = "start"
    /\ spawns' = spawns + 1
    /\ \E started \in BOOLEAN :
          IF started
          THEN /\ proc' = "checking"
               /\ pc' = "awaiting"
               /\ UNCHANGED result
          ELSE /\ proc' = "failed"
               /\ pc' = "done"
               /\ result' = Raise("OSError", "", <<>>)
    /\ UNCHANGED <<op, decls, args, prints, returncode, stdout, stderr, sent, tmpfile>>
    /\ UNCHANGED <<outputs, fragment, tester, iteration, tests_run, code_result>>
    /\ cwd' = get_file_directory(WorkspaceId)
    /\ UNCHANGED auxvars

\* variant: the test on the default is inverted
MissingRequiredInverted(params, data) ==
    \E i \in 1..Len(params) : ~Has(data, params[i].name) /\ ~params[i].required

\* pydantic_auto_convert.wrapper, inside the child: a parameter that is not
\* in the data and has no default raises ValueError
MissingRequired(params, data) ==
    \E i \in 1..Len(params) : ~Has(data, params[i].name) /\ params[i].required

pydantic_auto_convert ==
    /\ op = "tool_run_code"
    /\ proc = "checking"
    /\ IF MissingRequired(decls, args)
       THEN /\ proc' = "exited"
            /\ returncode' = 1
            /\ stderr' = "ValueError: Missing required argument"
       ELSE /\ proc' = "running"
            /\ UNCHANGED <<returncode, stderr>>
    /\ UNCHANGED <<op, pc, decls, args, spawns, prints, stdout, sent, result, tmpfile>>
    /\ UNCHANGED <<outputs, fragment, tester, iteration, tests_run, code_result>>
    /\ UNCHANGED <<cwd, auxvars>>

\* src/test_new_function/function_simple.py: run(a: int, b: int) -> int
function_simple_run(data) == JNum(Get(data, "a").n + Get(data, "b").n)

\* values run can return: a + b for function_simple, anything for generated code
RunReturns(v) ==
    IF fragment = "function_simple" THEN v = function_simple_run(args) ELSE v \in CallValues

\* run returns v:
\* print('<$output>', json.dumps(Wrapper(wrapped=result).model_dump()['wrapped']), '</$output>')
ToolPostamble(v) ==
    /\ op = "tool_run_code"
    /\ proc = "running"
    /\ RunReturns(v)
    /\ stdout' = stdout \o start_token \o <<" ">> \o JsonDumps(v) \o <<" ">>
                        \o end_token \o <<"\n">>
    /\ sent' = [has |-> TRUE, val |-> v]
    /\ proc' = "exited"
    /\ returncode' = 0
    /\ UNCHANGED <<op, pc, decls, args, spawns, prints, stderr, result, tmpfile>>
    /\ UNCHANGED <<outputs, fragment, tester, iteration, tests_run, code_result>>
    /\ UNCHANGED <<cwd, auxvars>>

execute_code_done ==
    /\ op = "tool_run_code"
    /\ pc = "awaiting"
    /\ proc = "exited"
    /\ result' = AfterCommunicate
    /\ pc' = "done"
    /\ UNCHANGED <<op, decls, args, spawns, proc, prints, returncode, stdout, stderr, sent, tmpfile>>
    /\ UNCHANGED <<outputs, fragment, tester, iteration, tests_run, code_result>>
    /\ UNCHANGED <<cwd, auxvars>>

(***************************************************************************)
(* run_test: temporary program, runner process, classification, cleanup.   *)
(***************************************************************************)
\* run_test has been called, directly or by test_code_with_ai
RunTestCalled == op = "run_test" \/ (op = "test_code_with_ai" /\ tester = "testing")

run_test ==
    /\ RunTestCalled
    /\ pc = "start"
    /\ \E written \in BOOLEAN, started \in BOOLEAN :
          IF ~written
          THEN \* temp_file.write fails: raised before the try block is entered
               /\ tmpfile' = TRUE
               /\ result' = Raise("OSError", "", <<>>)
               /\ pc' = "done"
               /\ UNCHANGED <<spawns, proc>>
          ELSE /\ spawns' = spawns + 1
               /\ IF started
                  THEN /\ tmpfile' = TRUE
                       /\ proc' = "running"
                       /\ pc' = "awaiting"
                       /\ UNCHANGED result
                  ELSE \* create_subprocess_exec raises; the finally clause unlinks
                       /\ tmpfile' = FALSE
                       /\ proc' = "failed"
                       /\ pc' = "done"
                       /\ result' = Raise("OSError", "", <<>>)
    /\ UNCHANGED <<op, decls, args, prints, returncode, stdout, stderr, sent>>
    /\ UNCHANGED <<outputs, fragment, tester, iteration, tests_run, code_result>>
    \* no cwd argument: the child inherits the directory of the orchestrator
    /\ cwd' = IF spawns' > spawns THEN Cwd ELSE cwd
    /\ UNCHANGED auxvars

TestPrint(p) ==
    /\ RunTestCalled
    /\ proc = "running"
    /\ prints < MaxNoise
    /\ stdout' = stdout \o p
    /\ prints' = prints + 1
    /\ UNCHANGED <<op, pc, decls, args, spawns, proc, returncode, stderr, sent, result, tmpfile>>
    /\ UNCHANGED <<outputs, fragment, tester, iteration, tests_run, code_result>>
    /\ UNCHANGED <<cwd, auxvars>>

RunnerExit(code, err) ==
    /\ RunTestCalled
    /\ proc = "running"
    /\ proc' = "exited"
    /\ returncode' = code
    /\ stderr' = err
    /\ UNCHANGED <<op, pc, decls, args, spawns, prints, stdout, sent, result, tmpfile>>
    /\ UNCHANGED <<outputs, fragment, tester, iteration, tests_run, code_result>>
    /\ UNCHANGED <<cwd, auxvars>>

\* what follows `await result.communicate()` in run_test: both streams are
\* decoded, then the outcome is classified
AfterRunner ==
    IF Undecodable(stdout) \/ stderr = BadByte THEN Raise("UnicodeDecodeError", "", <<>>)
    ELSE ReturnVerdict(TestResult(stdout, stderr, returncode))

run_test_done ==
    /\ RunTestCalled
    /\ pc = "awaiting"
    /\ proc = "exited"
    /\ result' = AfterRunner
    /\ tmpfile' = FALSE
    /\ pc' = "done"
    /\ UNCHANGED <<op, decls, args, spawns, proc, prints, returncode, stdout, stderr, sent>>
    /\ UNCHANGED <<outputs, fragment, tester, iteration, tests_run, code_result>>
    /\ UNCHANGED <<cwd, auxvars>>

(***************************************************************************)
(* The execute_code tool (scripty/tools and maketools/tools): what the     *)
(* agent receives for an outcome r of run_code_with_inputs.  The except    *)
(* clauses are tried in order: RuntimeError, ValueError, Exception.        *)
(***************************************************************************)
\* classes that `except ValueError` catches: json.JSONDecodeError and
\* UnicodeDecodeError are subclasses of ValueError
ValueErrors == {"ValueError", "JSONDecodeError", "UnicodeDecodeError"}

execute_code(r) ==
    IF r.kind # "raise" THEN r
    ELSE IF r.exc = "RuntimeError" THEN Raise("RuntimeError", "Error executing code", r.errors)
    ELSE IF r.exc \in ValueErrors THEN Raise("ValueError", "Error parsing inputs", r.errors)
    ELSE Raise("RuntimeError", "Error executing code", r.errors)

(***************************************************************************)
(* maketools test_code_with_ai: the generate-and-test loop.  One iteration *)
(* runs the agent, stores the test code and calls run_test.                *)
(***************************************************************************)
max_iteration == 2

\* an iteration up to its call of run_test; Runner.run, the parsing of the
\* agent's answer and the database update can raise, which the except
\* clause turns into RuntimeError("Error testing code: ...")
test_code_with_ai ==
    /\ op = "test_code_with_ai"
    /\ tester = "loop"
    /\ pc = "start"
    /\ \E generated \in BOOLEAN :
          IF generated
          THEN /\ tester' = "testing"
               /\ tests_run' = tests_run + 1
               /\ UNCHANGED result
          ELSE /\ tester' = "raised"
               /\ result' = Raise("RuntimeError", "Error testing code", <<>>)
               /\ UNCHANGED tests_run
    /\ UNCHANGED <<op, pc, decls, args, spawns, proc, prints, returncode, stdout, stderr, sent, tmpfile>>
    /\ UNCHANGED <<outputs, fragment, iteration, code_result>>
    /\ UNCHANGED <<cwd, auxvars>>

\* variant: the loop goes on while the tests fail, past max_iteration
test_code_with_ai_tested_uncapped ==
    /\ op = "test_code_with_ai"
    /\ tester = "testing"
    /\ pc = "done"
    /\ IF result.kind = "raise"
       THEN /\ tester' = "raised"
            /\ result' = Raise("RuntimeError", "Error testing code", <<>>)
            /\ UNCHANGED <<pc, spawns, proc, prints, returncode, stdout, stderr, iteration, code_result>>
       ELSE /\ code_result' = result.verdict
            /\ IF result.verdict.success \/ iteration + 1 > max_iteration
               THEN /\ tester' = "returned"
                    /\ UNCHANGED <<pc, spawns, proc, prints, returncode, stdout, stderr, iteration, result>>
               ELSE /\ iteration' = iteration + 1
                    /\ tester' = "loop"
                    /\ pc' = "start"
                    /\ spawns' = 0
                    /\ proc' = "none"
                    /\ prints' = 0
                    /\ returncode' = 0
                    /\ stdout' = <<>>
                    /\ stderr' = ""
                    /\ result' = NoResult
    /\ UNCHANGED <<op, decls, args, sent, tmpfile, outputs, fragment, tests_run>>
    /\ UNCHANGED <<cwd, auxvars>>

\* run_test has returned or raised: return the TestResult when it succeeded,
\* go round the loop when it failed, return the last TestResult when the
\* range is exhausted; an exception becomes RuntimeError
test_code_with_ai_tested ==
    /\ op = "test_code_with_ai"
    /\ tester = "testing"
    /\ pc = "done"
    /\ IF result.kind = "raise"
       THEN /\ tester' = "raised"
            /\ result' = Raise("RuntimeError", "Error testing code", <<>>)
            /\ UNCHANGED <<pc, spawns, proc, prints, returncode, stdout, stderr, iteration, code_result>>
       ELSE /\ code_result' = result.verdict
            /\ IF result.verdict.success
               THEN /\ tester' = "returned"
                    /\ UNCHANGED <<pc, spawns, proc, prints, returncode, stdout, stderr, iteration, result>>
               ELSE /\ iteration' = iteration + 1
                    /\ IF iteration + 1 < max_iteration
                       THEN /\ tester' = "loop"
                            /\ pc' = "start"
                            /\ spawns' = 0
                            /\ proc' = "none"
                            /\ prints' = 0
                            /\ returncode' = 0
                            /\ stdout' = <<>>
                            /\ stderr' = ""
                            /\ result' = NoResult
                       ELSE /\ tester' = "returned"
                            /\ UNCHANGED <<pc, spawns, proc, prints, returncode, stdout, stderr, result>>
    /\ UNCHANGED <<op, decls, args, sent, tmpfile, outputs, fragment, tests_run>>
    /\ UNCHANGED <<cwd, auxvars>>

(***************************************************************************)
(* inspect_function.py: the introspection program printed by               *)
(* signature_template and its decoding by execute_code.                    *)
(***************************************************************************)
function_path == Path(FALSE, <<"test_new_function", "function_simple.py">>)

\* os.path.dirname
dirname(p) == Path(p.abs, SubSeq(p.parts, 1, Len(p.parts) - 1))

\* function_schema(run).params_json_schema, reduced to the properties and
\* the required names of the parameters
params_json_schema(params) ==
    JMap(<<<<"p", "r", "o", "p", "s">>, <<"r", "e", "q">>>>,
         <<JMap([i \in 1..Len(params) |-> <<params[i].name>>],
                [i \in 1..Len(params) |-> JMap(<<<<"t", "y", "p", "e">>>>, <<JStr(<<"i", "n", "t">>)>>)]),
           JList([i \in 1..Len(params) |-> JStr(<<params[i].name>>)])>>)

\* run.__doc__: a text, or None when run has no docstring
Docstrings == IF fragment = "function_simple" THEN {JStr(<<"a", "d", "d", "s">>)}
              ELSE {JNull, JStr(<<"d", "o", "c">>)}

\* inspect_function(func) of the introspection program
signature_schema(doc) ==
    JMap(<<<<"s", "c", "h", "e", "m", "a">>, <<"d", "o", "c", "s", "t", "r", "i", "n", "g">>>>,
         <<params_json_schema(decls), doc>>)

\* inspect_function up to the suspension in execute_code: the file is read,
\* the program rendered and the child started in the directory of the file
inspect_function ==
    /\ op = "inspect_function"
    /\ pc = "start"
    /\ \E read \in BOOLEAN, started \in BOOLEAN :
          IF ~read
          THEN /\ result' = Raise("OSError", "", <<>>)
               /\ pc' = "done"
               /\ UNCHANGED <<spawns, proc, cwd>>
          ELSE /\ spawns' = spawns + 1
               /\ cwd' = dirname(function_path)
               /\ IF started
                  THEN /\ proc' = "running"
                       /\ pc' = "awaiting"
                       /\ UNCHANGED result
                  ELSE /\ proc' = "failed"
                       /\ pc' = "done"
                       /\ result' = Raise("OSError", "", <<>>)
    /\ UNCHANGED <<op, decls, args, prints, returncode, stdout, stderr, sent, tmpfile>>
    /\ UNCHANGED <<outputs, fragment, tester, iteration, tests_run, code_result>>
    /\ UNCHANGED auxvars

\* the introspection program: the fragment's code, then
\* print('<$output>', json.dumps(schema), '</$output>'); the import of the
\* schema library or the fragment's own code can end it with an error
signature_template(doc, code) ==
    /\ op = "inspect_function"
    /\ proc = "running"
    /\ doc \in Docstrings
    /\ proc' = "exited"
    /\ returncode' = code
    /\ IF code = 0
       THEN /\ stdout' = stdout \o start_token \o <<" ">> \o JsonDumps(signature_schema(doc))
                               \o <<" ">> \o end_token \o <<"\n">>
            /\ sent' = [has |-> TRUE, val |-> signature_schema(doc)]
            /\ UNCHANGED stderr
       ELSE /\ stderr' = "Traceback"
            /\ UNCHANGED <<stdout, sent>>
    /\ UNCHANGED <<op, pc, decls, args, spawns, prints, result, tmpfile>>
    /\ UNCHANGED <<outputs, fragment, tester, iteration, tests_run, code_result>>
    /\ UNCHANGED <<cwd, auxvars>>

\* execute_code after communicate(), then inspect_function returns the
\* decoded value
inspect_function_done ==
    /\ op = "inspect_function"
    /\ pc = "awaiting"
    /\ proc = "exited"
    /\ result' = AfterCommunicate
    /\ pc' = "done"
    /\ UNCHANGED <<op, decls, args, spawns, proc, prints, returncode, stdout, stderr, sent, tmpfile>>
    /\ UNCHANGED <<outputs, fragment, tester, iteration, tests_run, code_result>>
    /\ UNCHANGED <<cwd, auxvars>>

(***************************************************************************)
(* Concurrent executions in one workspace (scripty run_code_with_inputs).  *)
(* Every execution is a call of a script with one file output named "out"; *)
(* its child is started in the directory of the workspace, where the       *)
(* declared filepath names the same file for every call.                   *)
(***************************************************************************)
Callers == 1..MaxCallers

\* ScriptOutput.filepath of the scripts called
OutputPaths == {<<"o", ".", "t", "x", "t">>, <<"t", "m", "p">>}
OutputName == <<"o", "u", "t">>

\* variant: every call is given the same path
script_outputs_same_path(filepath) == JMap(<<OutputName>>, <<JStr(<<"t", "m", "p">>)>>)

\* outputs = {v.name: v.filepath for v in outputs_data}
script_outputs(filepath) == JMap(<<OutputName>>, <<JStr(filepath)>>)

NotCalled == [pc |-> "none", filepath |-> <<>>, output |-> JNull, wrote |-> FALSE,
              rebound |-> FALSE, out |-> <<>>, code |-> 0, result |-> NoResult]

\* the value under key k of a decoded mapping
Entry(v, k) ==
    IF v.t = "map" /\ \E i \in 1..Len(v.ks) : v.ks[i] = k
    THEN v.items[CHOOSE i \in 1..Len(v.ks) : v.ks[i] = k]
    ELSE JConst("missing")

\* caller i calls a script whose output is declared at filepath: the child
\* is started with json.dumps(outputs) as its second argument
run_file_script(i, filepath) ==
    /\ execs[i].pc = "none"
    /\ execs' = [execs EXCEPT ![i] = [NotCalled EXCEPT !.pc = "running",
                                                       !.filepath = filepath,
                                                       !.output = script_outputs(filepath)]]
    /\ UNCHANGED <<disk, enginevars, bashvars, catvars, streamvars, scriptvars, convertvars>>

\* the fragment of call i writes its content to the path it finds in output
FragmentWrite(i) ==
    /\ execs[i].pc = "running"
    /\ ~execs[i].wrote
    /\ Entry(execs[i].output, OutputName).t = "str"
    /\ disk' = [disk EXCEPT ![Entry(execs[i].output, OutputName).s] = i]
    /\ execs' = [execs EXCEPT ![i].wrote = TRUE]
    /\ UNCHANGED <<enginevars, bashvars, catvars, streamvars, scriptvars, convertvars>>

\* the fragment of call i assigns another value to its entry of output
FragmentRebind(i) ==
    /\ execs[i].pc = "running"
    /\ ~execs[i].rebound
    /\ execs' = [execs EXCEPT ![i].rebound = TRUE,
                              ![i].output = JMap(<<OutputName>>, <<JNum(i)>>)]
    /\ UNCHANGED <<disk, enginevars, bashvars, catvars, streamvars, scriptvars, convertvars>>

\* the child of call i ends: by the postamble (code 0) or by an error
FragmentEnd(i, code) ==
    /\ execs[i].pc = "running"
    /\ execs' = [execs EXCEPT ![i].pc = "exited",
                              ![i].code = code,
                              ![i].out = IF code = 0
                                         THEN start_token \o <<"\n">> \o JsonDumps(execs[i].output)
                                                  \o <<"\n">> \o end_token \o <<"\n">>
                                         ELSE <<>>]
    /\ UNCHANGED <<disk, enginevars, bashvars, catvars, streamvars, scriptvars, convertvars>>

\* communicate() of call i has returned
run_file_script_done(i) ==
    /\ execs[i].pc = "exited"
    /\ execs' = [execs EXCEPT ![i].pc = "returned",
                              ![i].result = IF execs[i].code # 0
                                            THEN Raise("RuntimeError", "Traceback", <<>>)
                                            ELSE Decode(execs[i].out)]
    /\ UNCHANGED <<disk, enginevars, bashvars, catvars, streamvars, scriptvars, convertvars>>

FilesIdle ==
    /\ execs = [i \in Callers |-> NotCalled]
    /\ disk = [f \in OutputPaths |-> 0]

(***************************************************************************)
(* maketools/tools/files.py: _run_bash_command_impl.                       *)
(***************************************************************************)
Whitespace == {" ", "\t", "\n"}
Quotes == {"'", "\""}
Escape == "\\"

LexOk(toks) == [ok |-> TRUE, tokens |-> toks, error |-> ""]
LexError(m) == [ok |-> FALSE, tokens |-> <<>>, error |-> m]

\* shlex.split(command): the posix rules of shlex.read_token with
\* whitespace_split and no commenters.  i is the next character, st the
\* state of the lexer (" ", "a", a quote or the escape), esc its
\* escapedstate, tok the token being read, toks the tokens read
RECURSIVE Lex(_, _, _, _, _, _)
Lex(s, i, st, esc, tok, toks) ==
    IF i > Len(s)
    THEN IF st \in Quotes THEN LexError("No closing quotation")
         ELSE IF st = Escape THEN LexError("No escaped character")
         ELSE IF st = "a" THEN LexOk(Append(toks, tok))
         ELSE LexOk(toks)
    ELSE IF st = " "
         THEN IF s[i] \in Whitespace THEN Lex(s, i + 1, " ", esc, <<>>, toks)
              ELSE IF s[i] = Escape THEN Lex(s, i + 1, Escape, "a", <<>>, toks)
              ELSE IF s[i] \in Quotes THEN Lex(s, i + 1, s[i], esc, <<>>, toks)
              ELSE Lex(s, i + 1, "a", esc, <<s[i]>>, toks)
    ELSE IF st \in Quotes
         THEN IF s[i] = st THEN Lex(s, i + 1, "a", esc, tok, toks)
              ELSE IF s[i] = Escape /\ st = "\"" THEN Lex(s, i + 1, Escape, st, tok, toks)
              ELSE Lex(s, i + 1, st, esc, Append(tok, s[i]), toks)
    ELSE IF st = Escape
         THEN IF esc \in Quotes /\ s[i] # Escape /\ s[i] # esc
              THEN Lex(s, i + 1, esc, esc, tok \o <<Escape, s[i]>>, toks)
              ELSE Lex(s, i + 1, esc, esc, Append(tok, s[i]), toks)
    ELSE IF s[i] \in Whitespace THEN Lex(s, i + 1, " ", esc, <<>>, Append(toks, tok))
         ELSE IF s[i] \in Quotes THEN Lex(s, i + 1, s[i], esc, tok, toks)
         ELSE IF s[i] = Escape THEN Lex(s, i + 1, Escape, "a", tok, toks)
         ELSE Lex(s, i + 1, "a", esc, Append(tok, s[i]), toks)

shlex_split(s) == Lex(s, 1, " ", "", <<>>, <<>>)

\* str.startswith for a one-character prefix
StartsWith(tok, c) == Len(tok) > 0 /\ tok[1] = c

\* variant: the test for ~ looks at the whole token
RejectedAnyTilde(tok) ==
    StartsWith(tok, "/") \/ Contains(tok, <<".", ".">>) \/ Contains(tok, <<"~">>)

\* the three tests made on a token
Rejected(tok) ==
    StartsWith(tok, "/") \/ Contains(tok, <<".", ".">>) \/ StartsWith(tok, "~")

RejectionMessage(tok) ==
    IF StartsWith(tok, "/") THEN "Error: Absolute paths are not allowed. Command rejected."
    ELSE IF Contains(tok, <<".", ".">>)
    THEN "Error: Parent directory traversal is not allowed. Command rejected."
    ELSE "Error: ~ is not allowed. Command rejected."

\* the first token, in order, that one of the tests rejects (0: none)
FirstRejected(tokens) ==
    IF \E i \in 1..Len(tokens) : Rejected(tokens[i])
    THEN CHOOSE i \in 1..Len(tokens) :
            Rejected(tokens[i]) /\ \A j \in 1..(i - 1) : ~Rejected(tokens[j])
    ELSE 0

NoBashResult == [kind |-> "none", msg |-> ""]

\* _run_bash_command_impl(command, cwd): shlex.split can raise ValueError;
\* a rejected token returns its message; otherwise subprocess.run is called
\* and its stderr (non-zero return code) or stdout is returned
run_bash_command_impl(tokens, shell_code) ==
    /\ bash_result = NoBashResult
    /\ IF ~tokens.ok
       THEN /\ bash_result' = [kind |-> "raise", msg |-> tokens.error]
            /\ UNCHANGED run_calls
       ELSE IF FirstRejected(tokens.tokens) # 0
       THEN /\ bash_result' = [kind |-> "return",
                               msg |-> RejectionMessage(tokens.tokens[FirstRejected(tokens.tokens)])]
            /\ UNCHANGED run_calls
       ELSE /\ run_calls' = run_calls + 1
            /\ bash_result' = [kind |-> "return",
                               msg |-> IF shell_code # 0 THEN "Error: stderr" ELSE "stdout"]
    /\ UNCHANGED <<command, enginevars, filevars, catvars, streamvars, scriptvars, convertvars>>

\* the command of test_run_bash_command_tilde_in_command
TildeCommand == <<"L", "O", "C", "A", "L", "=", "~", " ", "&", " ", "e", "c", "h", "o", " ", "$", "L", "O", "C", "A", "L">>

\* texts the commands are made of
CommandPieces == {<<"l", "s">>, <<" ">>, <<"/", "e", "t", "c">>, <<".", ".">>, <<"~">>,
                  <<"=">>, <<"'">>, <<"\"">>, <<Escape>>, <<"a", "/">>}

RECURSIVE Concat(_)
Concat(ps) == IF ps = <<>> THEN <<>> ELSE Head(ps) \o Concat(Tail(ps))

Commands == {TildeCommand}
            \cup UNION {{Concat(ps) : ps \in [1..n -> CommandPieces]} : n \in 0..MaxPieces}

BashIdle ==
    /\ command = <<>>
    /\ run_calls = 0
    /\ bash_result = NoBashResult

(***************************************************************************)
(* maketools/tools/files.py: _cat_file_impl.                               *)
(***************************************************************************)
\* the largest line_end - line_start that is accepted
max_content_lines == 200

\* an index of a Python slice over n elements: negative indices count from
\* the end, the result is clamped to 0..n
SliceIndex(k, n) ==
    IF k < 0 THEN (IF k + n < 0 THEN 0 ELSE k + n)
    ELSE IF k > n THEN n ELSE k

\* seq[a:b]
PySlice(seq, a, b) ==
    IF SliceIndex(a, Len(seq)) < SliceIndex(b, Len(seq))
    THEN SubSeq(seq, SliceIndex(a, Len(seq)) + 1, SliceIndex(b, Len(seq)))
    ELSE <<>>

NoCatResult == [kind |-> "none", lines |-> <<>>]

\* _cat_file_impl(filepath, line_start, line_end): the error, or the lines
\* lines[line_start:line_end+1] joined
cat_file_impl ==
    /\ cat_result = NoCatResult
    /\ cat_result' = IF line_end - line_start > max_content_lines
                     THEN [kind |-> "error", lines |-> <<>>]
                     ELSE [kind |-> "content",
                           lines |-> PySlice(file_lines, line_start, line_end + 1)]
    /\ UNCHANGED <<file_lines, line_start, line_end>>
    /\ UNCHANGED <<enginevars, filevars, bashvars, streamvars, scriptvars, convertvars>>

\* numbers of lines of the files read; line i of a file is modelled as i
FileLengths == {0, 1, 2, 199, 200, 201, MaxFileLines}
LineStarts == {0 - 2, 0 - 1, 0, 1, 2}
LineEnds == {0 - 2, 0 - 1, 0, 1, 199, 200, 201, 202}

CatIdle ==
    /\ file_lines = <<>>
    /\ line_start = 0
    /\ line_end = 0
    /\ cat_result = NoCatResult

(***************************************************************************)
(* scripty/controllers/base.py: update_conversation_with_agent, the loop   *)
(* over result.stream_events().  Tool calls are numbered in the order of   *)
(* their tool_call_item events.                                            *)
(***************************************************************************)
ToolNames == {"say", "cat_file", "execute_code"}

\* a tool_call_item event: the name is remembered and a tool_call event is
\* yielded, or, for say, a message_output event whose data is
\* raw_item.replace(...); raw_item is an object of the agents library, and
\* when it has no attribute `replace` the generator ends with AttributeError
tool_call_item(name, has_replace) ==
    /\ stream = "open"
    /\ Len(calls) < MaxCalls
    /\ calls' = Append(calls, name)
    /\ emitted' = Append(emitted, 0)
    /\ current_tool_name' = name
    /\ stream' = IF name = "say" /\ ~has_replace THEN "raised" ELSE "open"
    /\ UNCHANGED arrived
    /\ UNCHANGED <<enginevars, filevars, bashvars, catvars, scriptvars, convertvars>>

\* the tool_call_output_item event of call i: nothing is yielded when the
\* remembered name is say, a tool_call_output event otherwise
tool_call_output_item(i) ==
    /\ stream = "open"
    /\ i \in 1..Len(calls)
    /\ i \notin arrived
    /\ arrived' = arrived \cup {i}
    /\ emitted' = IF current_tool_name = "say" THEN emitted
                  ELSE [emitted EXCEPT ![i] = emitted[i] + 1]
    /\ UNCHANGED <<current_tool_name, calls, stream>>
    /\ UNCHANGED <<enginevars, filevars, bashvars, catvars, scriptvars, convertvars>>

StreamIdle ==
    /\ current_tool_name = "None"
    /\ calls = <<>>
    /\ arrived = {}
    /\ emitted = <<>>
    /\ stream = "open"

(***************************************************************************)
(* scripty/services/script.py: ScriptService.create_script and             *)
(* update_script on the stored scripts.                                    *)
(***************************************************************************)
ScriptIds == {"s1", "s2"}
NoScript == [stored |-> FALSE, inputs |-> <<>>, outputs |-> <<>>]

\* ScriptInput (type and value) and ScriptOutput (filepath) of the payloads
InputTypes == {"file", "string"}
InputValues == {"None", "a.txt"}
Filepaths == {"a.txt", "b.txt"}
ScriptInputs == UNION {[1..n -> [type : InputTypes, value : InputValues]] : n \in 0..MaxScriptInputs}
ScriptOutputs == {<<>>} \cup {<<f>> : f \in Filepaths}
Payloads == [inputs : ScriptInputs, outputs : ScriptOutputs]

\* _check_input_and_output_filepaths_different raises ValueError
SameFilepaths(script) ==
    \E i \in 1..Len(script.inputs) :
        /\ script.inputs[i].value # "None"
        /\ script.inputs[i].type = "file"
        /\ \E o \in 1..Len(script.outputs) : script.outputs[o] = script.inputs[i].value

\* create_script: the payload is stored under a new id; the commit can fail
create_script(id, script, committed) ==
    /\ ~scripts[id].stored
    /\ IF committed
       THEN /\ scripts' = [scripts EXCEPT ![id] = [stored |-> TRUE, inputs |-> script.inputs,
                                                   outputs |-> script.outputs]]
            /\ response' = "created"
       ELSE /\ response' = "error"
            /\ UNCHANGED scripts
    /\ UNCHANGED <<enginevars, filevars, bashvars, catvars, streamvars, convertvars>>

\* update_script: the check, then the script is looked for, then its inputs
\* and outputs are replaced; every exception rolls back and answers 500
update_script(id, script, committed) ==
    /\ IF SameFilepaths(script) \/ ~scripts[id].stored \/ ~committed
       THEN /\ response' = "error"
            /\ UNCHANGED scripts
       ELSE /\ scripts' = [scripts EXCEPT ![id] = [stored |-> TRUE, inputs |-> script.inputs,
                                                   outputs |-> script.outputs]]
            /\ response' = "updated"
    /\ UNCHANGED <<enginevars, filevars, bashvars, catvars, streamvars, convertvars>>

ScriptsIdle ==
    /\ scripts = [id \in ScriptIds |-> NoScript]
    /\ response = "none"

(***************************************************************************)
(* CODE_WRAPPER_TEMPLATE of maketools: convert_to_model and                *)
(* pydantic_auto_convert.wrapper.  The argument object and the dicts in it *)
(* are JSON maps; a model instance is the map of its fields.               *)
(***************************************************************************)
\* class Point(BaseModel) of function_pydantic.py: long: float, lat: float
Point == <<"P", "o", "i", "n", "t">>
PointFields == <<<<"l", "o", "n", "g">>, <<"l", "a", "t">>>>

Param(name, model, has_default) == [name |-> name, model |-> model, has_default |-> has_default]
NoModel == <<>>

ValidationError == JConst("ValidationError")

\* model_type(**d): every field must be given a number; other keys are ignored
Construct(fields, d) ==
    IF \A i \in 1..Len(fields) : Entry(d, fields[i]).t = "num"
    THEN JMap(fields, [i \in 1..Len(fields) |-> Entry(d, fields[i])])
    ELSE ValidationError

\* convert_to_model(data, model_type) for a dict: the first entry whose key,
\* lower-cased, is the lower-cased class name and whose value is a dict
\* gives the fields; otherwise the whole dict does
convert_to_model(d, model) ==
    IF \E i \in 1..Len(d.ks) : PyLower(d.ks[i]) = PyLower(model) /\ d.items[i].t = "map"
    THEN Construct(PointFields,
                   d.items[CHOOSE i \in 1..Len(d.ks) :
                              /\ PyLower(d.ks[i]) = PyLower(model) /\ d.items[i].t = "map"
                              /\ \A j \in 1..(i - 1) :
                                    ~(PyLower(d.ks[j]) = PyLower(model) /\ d.items[j].t = "map")])
    ELSE Construct(PointFields, d)

HasKey(d, k) == \E i \in 1..Len(d.ks) : d.ks[i] = k

\* the value wrapper gives to one parameter, or the exception it raises
Converted(param, d) ==
    IF param.model # NoModel THEN convert_to_model(d, param.model)
    ELSE IF HasKey(d, param.name) THEN Entry(d, param.name)
    ELSE IF param.has_default THEN JConst("default")
    ELSE JConst("ValueError")

Exceptions == {ValidationError, JConst("ValueError")}

\* wrapper(data): the parameters are processed in order; the first
\* exception ends the call, otherwise run is called with the new kwargs
wrapper(params, d) ==
    IF \E i \in 1..Len(params) : Converted(params[i], d) \in Exceptions
    THEN [kind |-> "raise",
          exc |-> Converted(params[CHOOSE i \in 1..Len(params) :
                                      /\ Converted(params[i], d) \in Exceptions
                                      /\ \A j \in 1..(i - 1) : Converted(params[j], d) \notin Exceptions], d),
          kw |-> JNull]
    ELSE [kind |-> "call", exc |-> JNull,
          kw |-> JMap([i \in 1..Len(params) |-> params[i].name],
                      [i \in 1..Len(params) |-> Converted(params[i], d)])]

NoKwargs == [kind |-> "none", exc |-> JNull, kw |-> JNull]

pydantic_auto_convert_wrapper ==
    /\ kwargs = NoKwargs
    /\ kwargs' = wrapper(signature, argument_object)
    /\ UNCHANGED <<signature, argument_object>>
    /\ UNCHANGED <<enginevars, filevars, bashvars, catvars, streamvars, scriptvars>>

\* signatures of run: function_pydantic.py (point: Point, options: dict) and
\* the same function with its first parameter named origin
ParamNames == {<<"p", "o", "i", "n", "t">>, <<"o", "r", "i", "g", "i", "n">>}
Options == <<"o", "p", "t", "i", "o", "n", "s">>
Signatures == {<<Param(n, Point, FALSE), Param(Options, NoModel, d)>> : n \in ParamNames, d \in BOOLEAN}

\* argument objects: up to MaxEntries entries with distinct keys
PointDicts == {JMap(PointFields, <<JNum(1), JNum(2)>>), JMap(PointFields, <<JNum(3), JNum(4)>>),
               JMap(<<<<"l", "o", "n", "g">>>>, <<JNum(1)>>)}
DataKeys == ParamNames \cup {Options, <<"l", "o", "n", "g">>, <<"l", "a", "t">>}
DataValues == PointDicts \cup {JNum(5)}
ArgumentObjects ==
    UNION {{JMap(ks, items) : ks \in {k \in [1..n -> DataKeys] : \A i, j \in 1..n : i # j => k[i] # k[j]},
                              items \in [1..n -> DataValues]} : n \in 0..MaxEntries}

ConvertIdle ==
    /\ signature = <<>>
    /\ argument_object = JMap(<<>>, <<>>)
    /\ kwargs = NoKwargs

AuxIdle == FilesIdle /\ BashIdle /\ CatIdle /\ StreamIdle /\ ScriptsIdle /\ ConvertIdle

(***************************************************************************)
(* Specifications.                                                         *)
(***************************************************************************)
NotSent == [has |-> FALSE, val |-> JNull]
\* no child has been started
NoCwd == Path(FALSE, <<>>)

InitCall(o, d, a) ==
    /\ op = o
    /\ pc = "start"
    /\ decls = d
    /\ args = a
    /\ spawns = 0
    /\ proc = "none"
    /\ prints = 0
    /\ returncode = 0
    /\ stdout = <<>>
    /\ stderr = ""
    /\ sent = NotSent
    /\ result = NoResult
    /\ tmpfile = FALSE
    /\ cwd = NoCwd
    /\ tester = IF o = "test_code_with_ai" THEN "loop" ELSE "none"
    /\ iteration = 0
    /\ tests_run = 0
    /\ code_result = NoVerdict

\* script.outputs of the scripts called: none, or the one output "out"
OutputSeqs == {<<>>, <<<<"o", "u", "t">>>>}

\* the parameters of run in function_simple.py and the argument maps given to it
function_simple_params == <<Decl("a", "integer", TRUE), Decl("b", "integer", TRUE)>>
function_simple_args == [1..2 -> {Absent, IntArg(2), IntArg(3)}]

\* one call of any of the operations, with any declared inputs and arguments
Init ==
    \/ /\ \E d \in DeclSeqs(ArgumentTypes, {TRUE}) :
             \E a \in [1..Len(d) -> ArgValues] : InitCall("run_code", d, a)
       /\ outputs \in OutputSeqs
       /\ fragment = "generated"
       /\ AuxIdle
    \/ /\ \E d \in DeclSeqs({"string"}, BOOLEAN) :
             \E a \in [1..Len(d) -> {Absent, None, Str(FALSE, <<"in.csv">>)}] :
                InitCall("tool_run_code", d, a)
       /\ outputs = <<>>
       /\ fragment = "generated"
       /\ AuxIdle
    \/ /\ \E a \in function_simple_args :
             InitCall("tool_run_code", function_simple_params, a)
       /\ outputs = <<>>
       /\ fragment = "function_simple"
       /\ AuxIdle
    \/ /\ InitCall("run_test", <<>>, <<>>)
       /\ outputs = <<>>
       /\ fragment = "generated"
       /\ AuxIdle
    \/ /\ InitCall("inspect_function", function_simple_params, <<>>)
       /\ outputs = <<>>
       /\ fragment \in {"function_simple", "generated"}
       /\ AuxIdle

Next ==
    \/ run_code_with_inputs
    \/ \E p \in CallPieces : FragmentPrint(p, MaxNoise)
    \/ \E c \in ExitCodes, e \in ErrTexts : FragmentExit(c, e)
    \/ \E v \in CallValues : Postamble(v)
    \/ run_code_with_inputs_done
    \/ tool_run_code_with_inputs
    \/ pydantic_auto_convert
    \/ \E v \in ToolValues : ToolPostamble(v)
    \/ execute_code_done
    \/ run_test
    \/ \E p \in TestPieces : TestPrint(p)
    \/ \E c \in RunnerExitCodes, e \in ErrTexts : RunnerExit(c, e)
    \/ run_test_done
    \/ inspect_function
    \/ \E d \in {JNull, JStr(<<"a", "d", "d", "s">>), JStr(<<"d", "o", "c">>)}, c \in {0, 1} :
          signature_template(d, c)
    \/ inspect_function_done

Spec == Init /\ [][Next]_vars

\* the generate-and-test loop: test_code_with_ai and the runs of run_test it
\* makes, each with any output and any exit code of the test runner
InitTester ==
    /\ InitCall("test_code_with_ai", <<>>, <<>>)
    /\ outputs = <<>>
    /\ fragment = "generated"
    /\ AuxIdle

NextTester ==
    \/ test_code_with_ai
    \/ run_test
    \/ \E p \in TestPieces : TestPrint(p)
    \/ \E c \in RunnerExitCodes, e \in ErrTexts : RunnerExit(c, e)
    \/ run_test_done
    \/ test_code_with_ai_tested

SpecTester == InitTester /\ [][NextTester]_vars

\* the wire codec: a script without inputs whose fragment prints any texts
\* and ends with any value
InitCodec ==
    /\ InitCall("run_code", <<>>, <<>>)
    /\ outputs = <<>>
    /\ fragment = "generated"
    /\ AuxIdle

NextCodec ==
    \/ run_code_with_inputs
    \/ \E p \in CodecPieces : FragmentPrint(p, MaxPrints)
    \/ \E c \in ExitCodes : FragmentExit(c, "")
    \/ \E v \in CodecValues : Postamble(v)
    \/ run_code_with_inputs_done

SpecCodec == InitCodec /\ [][NextCodec]_vars

\* no call of the engine
EngineIdle ==
    /\ InitCall("none", <<>>, <<>>)
    /\ outputs = <<>>
    /\ fragment = "generated"

\* callers of scripts with a file output, running concurrently in one workspace
InitFiles ==
    /\ EngineIdle
    /\ FilesIdle /\ BashIdle /\ CatIdle /\ StreamIdle /\ ScriptsIdle /\ ConvertIdle

NextFiles ==
    \/ \E i \in Callers, f \in OutputPaths : run_file_script(i, f)
    \/ \E i \in Callers : FragmentWrite(i)
    \/ \E i \in Callers : FragmentRebind(i)
    \/ \E i \in Callers, c \in {0, 1} : FragmentEnd(i, c)
    \/ \E i \in Callers : run_file_script_done(i)

SpecFiles == InitFiles /\ [][NextFiles]_vars

\* one call of _run_bash_command_impl with any command
InitBash ==
    /\ EngineIdle
    /\ command \in Commands
    /\ run_calls = 0
    /\ bash_result = NoBashResult
    /\ FilesIdle /\ CatIdle /\ StreamIdle /\ ScriptsIdle /\ ConvertIdle

NextBash == \E c \in {0, 1} : run_bash_command_impl(shlex_split(command), c)

SpecBash == InitBash /\ [][NextBash]_vars

\* one call of _cat_file_impl on any file with any bounds
InitCat ==
    /\ EngineIdle
    /\ file_lines \in {[i \in 1..n |-> i] : n \in FileLengths}
    /\ line_start \in LineStarts
    /\ line_end \in LineEnds
    /\ cat_result = NoCatResult
    /\ FilesIdle /\ BashIdle /\ StreamIdle /\ ScriptsIdle /\ ConvertIdle

NextCat == cat_file_impl

SpecCat == InitCat /\ [][NextCat]_vars

\* one run of the agent, streamed
InitStream ==
    /\ EngineIdle
    /\ FilesIdle /\ BashIdle /\ CatIdle /\ StreamIdle /\ ScriptsIdle /\ ConvertIdle

NextStream ==
    \/ \E name \in ToolNames, has_replace \in BOOLEAN : tool_call_item(name, has_replace)
    \/ \E i \in 1..MaxCalls : tool_call_output_item(i)

SpecStream == InitStream /\ [][NextStream]_vars

\* any sequence of create_script and update_script
InitScripts ==
    /\ EngineIdle
    /\ FilesIdle /\ BashIdle /\ CatIdle /\ StreamIdle /\ ScriptsIdle /\ ConvertIdle

NextScripts ==
    \/ \E id \in ScriptIds, script \in Payloads, committed \in BOOLEAN :
          create_script(id, script, committed)
    \/ \E id \in ScriptIds, script \in Payloads, committed \in BOOLEAN :
          update_script(id, script, committed)

SpecScripts == InitScripts /\ [][NextScripts]_vars

\* one call of the wrapper with any signature and argument object
InitConvert ==
    /\ EngineIdle
    /\ signature \in Signatures
    /\ argument_object \in ArgumentObjects
    /\ kwargs = NoKwargs
    /\ FilesIdle /\ BashIdle /\ CatIdle /\ StreamIdle /\ ScriptsIdle

NextConvert == pydantic_auto_convert_wrapper

SpecConvert == InitConvert /\ [][NextConvert]_vars

(***************************************************************************)
(* Properties.                                                             *)
(***************************************************************************)
\* a zero-exit run whose output has been handed to the sentinel extraction
Decoded == op = "run_code" /\ pc = "done" /\ proc = "exited" /\ returncode = 0

\* the text between the first start sentinel and the first end sentinel after it
FirstSpanEnd(out) == Find(out, end_token, Find(out, start_token, 1) + Len(start_token))
HasSpan(out) == Contains(out, start_token) /\ FirstSpanEnd(out) # 0
FirstSpan(out) == SubSeq(out, Find(out, start_token, 1) + Len(start_token), FirstSpanEnd(out) - 1)

\* number of sentinel-delimited spans whose interior is valid JSON
RECURSIVE ValidSpans(_)
ValidSpans(out) ==
    IF ~HasSpan(out) THEN 0
    ELSE (IF JsonLoads(FirstSpan(out)).ok THEN 1 ELSE 0)
         + ValidSpans(SubSeqFrom(out, FirstSpanEnd(out) + Len(end_token)))

\* C1: decoding a stdout that lacks the start sentinel or lacks the end
\* sentinel always raises an error and never returns a value.
C1_MissingSentinelRaises ==
    (Decoded /\ (~Contains(stdout, start_token) \/ ~Contains(stdout, end_token)))
        => result.kind = "raise"

\* C2: round trip of the wire codec: decoding the stdout that the postamble
\* emits for a value v (and nothing else) returns a value equal to v.
C2_RoundTrip ==
    (Decoded /\ sent.has /\ prints = 0)
        => (result.kind = "return" /\ PyEq(result.val, sent.val))

\* C3: for every stdout that contains a start sentinel followed later by an
\* end sentinel, the decoder returns the JSON parse of the text between the
\* first start sentinel and the first end sentinel after it (an error when
\* that text is not JSON), whatever precedes or follows the span.
C3_DecodesFirstSpan ==
    (Decoded /\ HasSpan(stdout))
        => result = (IF JsonLoads(FirstSpan(stdout)).ok
                     THEN Return(JsonLoads(FirstSpan(stdout)).val)
                     ELSE Raise("JSONDecodeError", "", <<>>))

\* C4: when the stdout of a zero-exit run contains two or more well-formed
\* spans, run_code_with_inputs does not return a value decoded from them.
C4_TwoSpansRejected ==
    (Decoded /\ ValidSpans(stdout) >= 2) => result.kind # "return"

\* some declared input is absent from the argument map or null
SomeInputMissing == \E i \in 1..Len(decls) : args[i].k \in {"absent", "none"}

\* C5: in event/output mode a call whose argument map lacks a declared input
\* (absent or null) raises a validation error and makes no spawn.
C5_MissingInputNoSpawn ==
    (op = "run_code" /\ SomeInputMissing)
        => /\ spawns = 0
           /\ proc = "none"
           /\ pc \in {"start", "done"}
           /\ pc = "done" => (result.kind = "raise" /\ result.exc = "ValueError")

C5_Witness == op = "run_code" /\ SomeInputMissing /\ pc = "done" /\ Len(decls) = 2

\* the file named by the value of input i, joined to the workspace directory
InputPath(i) == PathJoin(get_file_directory(WorkspaceId), Path(args[i].abs, args[i].parts))
MissingInputs == {i \in 1..Len(decls) : args[i].k \in {"absent", "none"}}
BadFileInputs == {i \in 1..Len(decls) : /\ args[i].k = "str"
                                        /\ decls[i].type = "file"
                                        /\ ~PathExists(InputPath(i))}
Lines(kind) == {j \in 1..Len(result.errors) : result.errors[j].kind = kind}

\* C6: validation is aggregated: the call raises exactly one error holding
\* one line for every violating input (missing/null value, or file-typed
\* value naming a path that does not exist); a file-typed input whose path
\* does not exist is always reported.
C6_AggregatedValidation ==
    (op = "run_code" /\ pc = "done" /\ MissingInputs \cup BadFileInputs # {})
        => /\ result.kind = "raise"
           /\ result.exc = "ValueError"
           /\ spawns = 0
           /\ Len(result.errors) = Cardinality(MissingInputs \cup BadFileInputs)
           /\ Cardinality(Lines("not_set")) = Cardinality(MissingInputs)
           /\ Cardinality(Lines("file_not_found")) = Cardinality(BadFileInputs)
           /\ \A i \in MissingInputs :
                 \E j \in Lines("not_set") : result.errors[j].what = decls[i].name

C6_Witness ==
    /\ op = "run_code"
    /\ pc = "done"
    /\ MissingInputs # {}
    /\ BadFileInputs # {}
    /\ Len(result.errors) = 2

\* the path is at or below the workspace directory
UnderWorkspace(at) ==
    LET root == get_file_directory(WorkspaceId).parts
    IN Len(at) >= Len(root) /\ SubSeq(at, 1, Len(root)) = root

\* C7: whenever run_code_with_inputs spawns, every file-typed declared
\* input's value names an existing path located under the workspace
\* directory.
C7_FileInputsUnderWorkspace ==
    (op = "run_code" /\ spawns > 0)
        => \A i \in 1..Len(decls) :
              decls[i].type = "file"
                 => /\ args[i].k = "str"
                    /\ Locate(InputPath(i)).ok
                    /\ UnderWorkspace(Locate(InputPath(i)).at)

\* a required parameter of run is absent from the argument object
RequiredOmitted ==
    \E i \in 1..Len(decls) : decls[i].required /\ args[i].k = "absent"

C9_NonZeroExitRaises ==
    (op \in {"run_code", "tool_run_code"} /\ pc = "done" /\ proc = "exited" /\ returncode # 0)
        => result = Raise("RuntimeError", stderr, <<>>)

\* the call ended before its spawn: validation errors, the temporary test
\* program could not be written, or the function's file could not be read
EndedBeforeSpawn ==
    \/ op = "run_code" /\ MissingInputs \cup BadFileInputs # {}
    \/ op \in {"run_test", "test_code_with_ai", "inspect_function"} /\ pc = "done" /\ proc = "none"

\* C10: a call spawns at most one subprocess, exactly one when the
\* pre-flight checks pass, never spawns again after a failure, and does not
\* return before that process has completed.
C10_SingleSpawn ==
    /\ spawns <= 1
    /\ (pc # "start" /\ ~EndedBeforeSpawn) => spawns = 1
    /\ (pc = "done" /\ spawns = 1) => proc \in {"exited", "failed"}
    /\ pc = "awaiting" => result.kind = "none"

C10_Witness ==
    /\ pc = "done"
    /\ spawns = 1
    /\ proc = "exited"
    /\ result.kind = "raise"
    /\ op = "run_code"
    /\ Len(decls) = 2

\* C11: error kinds stay distinguishable up to the execute_code tool: an
\* error the tool reports as an input error ("Error parsing inputs") was
\* raised pre-flight, with no subprocess spawned; every failure after the
\* spawn is reported as another kind.
C11_ErrorKindsDistinct ==
    (/\ op \in {"run_code", "tool_run_code"}
     /\ pc = "done"
     /\ execute_code(result).kind = "raise"
     /\ execute_code(result).msg = "Error parsing inputs")
        => spawns = 0

\* a call of run_test that has ended
RunTestEnded == RunTestCalled /\ pc = "done"
\* a call of run_test that has returned a TestResult
VerdictReturned == RunTestEnded /\ result.kind = "return"

\* C12: the TestResult returned by run_test has success = true only if the
\* runner's exit code is 0 (every non-zero code, negative ones included,
\* yields success = false), and its exit_code is the process's exit code.
C12_SuccessOnlyOnExitZero ==
    VerdictReturned
        => /\ result.verdict.success => returncode = 0
           /\ returncode # 0 => ~result.verdict.success
           /\ result.verdict.exit_code = returncode

C12_Witness ==
    /\ VerdictReturned
    /\ returncode < 0
    /\ Contains(PyLower(stdout), PASSED)
    /\ ~Contains(PyLower(stdout), FAILED)

ThreeFailedTwoPassed ==
    <<"3", " ", "f", "a", "i", "l", "e", "d", ",", " ", "2", " ", "p", "a", "s", "s", "e", "d">>

\* C13 (as stated): when the runner exits with code 0 and its stdout is
\* `3 failed, 2 passed`, the TestResult has success = false and its detail
\* is exactly `3 failed`.
C13_DetailThreeFailed ==
    (VerdictReturned /\ returncode = 0 /\ stdout = ThreeFailedTwoPassed)
        => /\ ~result.verdict.success
           /\ result.verdict.details = <<"3", " ", "f", "a", "i", "l", "e", "d">>

\* C13 (amended): when the runner exits with code 0 and its stdout is
\* `3 failed, 2 passed`, the TestResult that run_test returns has
\* success = false and its detail is exactly `3 tests failed`.
C13_DetailThreeTestsFailed ==
    (VerdictReturned /\ returncode = 0 /\ stdout = ThreeFailedTwoPassed)
        => /\ ~result.verdict.success
           /\ result.verdict.details
                 = <<"3", " ", "t", "e", "s", "t", "s", " ", "f", "a", "i", "l", "e", "d">>
           /\ result.verdict.exit_code = 0

C13_Witness ==
    /\ VerdictReturned
    /\ returncode = 0
    /\ stdout = ThreeFailedTwoPassed
    /\ op = "run_test"

\* C14: whenever the runner exits with code 5, run_test returns a
\* TestResult with success = false and the detail `No tests were collected`,
\* whatever stdout and stderr hold.
C14_NoTestsCollected ==
    (VerdictReturned /\ returncode = 5)
        => /\ ~result.verdict.success
           /\ result.verdict.details = ExitCodeDetails(5)

\* C15: an exit code 0 is downgraded to a failure only when stdout holds a
\* count of failures (a number followed by `failed`); a stdout that merely
\* contains the word `failed` leaves success = true.
C15_OverrideNeedsFailureCount ==
    (VerdictReturned /\ returncode = 0 /\ ~CountMatch(stdout, FAILED).found)
        => result.verdict.success

\* C16: once run_test has returned or raised, on any exit path, the
\* temporary program file it created no longer exists on disk.
C16_TempFileRemoved ==
    (op \in {"run_test", "test_code_with_ai"} /\ pc = "done") => ~tmpfile

\* C17: once the runner process has been started and has exited, run_test
\* returns a TestResult, for every exit code and every content of stdout
\* and stderr; it raises only when the runner could not be started.
C17_VerdictAfterExit ==
    (RunTestEnded /\ proc = "exited") => result.kind = "return"

\* C18: test_code_with_ai calls run_test at most max_iteration = 2 times; it
\* starts a second run only after a failing first TestResult, returns the
\* first successful TestResult at once, and after two failing ones returns
\* the second without a third attempt.
C18_LoopCapped ==
    op = "test_code_with_ai"
        => /\ tests_run <= max_iteration
           /\ iteration <= max_iteration
           /\ (tests_run = 2 /\ tester \in {"loop", "testing"}) => ~code_result.success
           /\ (tester = "loop" /\ tests_run >= 1) => tests_run < max_iteration
           /\ tester = "returned"
                 => /\ code_result = result.verdict
                    /\ code_result.success \/ tests_run = max_iteration
                    /\ code_result.success => iteration = tests_run - 1
                    /\ ~code_result.success => iteration = max_iteration

C18_Witness ==
    /\ op = "test_code_with_ai"
    /\ tester = "returned"
    /\ tests_run = 2
    /\ ~code_result.success
    /\ code_result.exit_code = 1

\* C19: in typed-function mode, run(a: int, b: int) -> int returning a + b,
\* called with {"a": 2, "b": 3}, returns the mapping {"result": 5}.
C19_AddReturnsResultMap ==
    (/\ op = "tool_run_code"
     /\ fragment = "function_simple"
     /\ args = <<IntArg(2), IntArg(3)>>
     /\ pc = "done"
     /\ sent.has)
        => result = Return(JMap(<<<<"r", "e", "s", "u", "l", "t">>>>, <<JNum(5)>>))

\* C20: for every event/output-mode call that returns a result, the set of
\* keys of the returned mapping equals the set of the declared output names.
C20_ResultKeysAreOutputs ==
    (op = "run_code" /\ pc = "done" /\ result.kind = "return")
        => /\ result.val.t = JMap(<<>>, <<>>).t
           /\ {result.val.ks[i] : i \in 1..Len(result.val.ks)}
                 = {outputs[i] : i \in 1..Len(outputs)}

WritesAlone(i) ==
    \A j \in Callers \ {i} : ~(execs[j].wrote /\ execs[j].filepath = execs[i].filepath)

C22_SpawnedInWorkspace ==
    (op \in {"run_code", "tool_run_code", "run_test", "test_code_with_ai"} /\ spawns > 0)
        => cwd = get_file_directory(WorkspaceId)

\* C23: introspecting a typed function returns a record of three
\* components: the input schema, the output schema and the docstring.
C23_IntrospectionTriple ==
    (op = "inspect_function" /\ pc = "done" /\ result.kind = "return")
        => /\ result.val.t = "map"
           /\ Len(result.val.ks) = 3

\* the tests of the claim on a token, and the message of each
StartsWithSlash(tok) == Len(tok) > 0 /\ tok[1] = "/"
HasDotDot(tok) == \E k \in 1..(Len(tok) - 1) : tok[k] = "." /\ tok[k + 1] = "."
StartsWithTilde(tok) == Len(tok) > 0 /\ tok[1] = "~"
TildeMessage == "Error: ~ is not allowed. Command rejected."
MatchingMessages(toks) ==
    {"Error: Absolute paths are not allowed. Command rejected." :
        i \in {k \in 1..Len(toks) : StartsWithSlash(toks[k])}}
    \cup {"Error: Parent directory traversal is not allowed. Command rejected." :
        i \in {k \in 1..Len(toks) : HasDotDot(toks[k])}}
    \cup {TildeMessage : i \in {k \in 1..Len(toks) : StartsWithTilde(toks[k])}}

\* the call has ended as the claim says for the tokens toks
RunIffNoBadToken(toks) ==
    IF MatchingMessages(toks) # {}
    THEN /\ bash_result.kind = "return"
         /\ bash_result.msg \in MatchingMessages(toks)
         /\ run_calls = 0
    ELSE run_calls = 1

C25_TildeAnywhereRejected ==
    (/\ bash_result.kind # "none"
     /\ shlex_split(command).ok
     /\ Contains(command, <<"~">>)
     /\ \A k \in 1..Len(shlex_split(command).tokens) :
           /\ ~StartsWithSlash(shlex_split(command).tokens[k])
           /\ ~HasDotDot(shlex_split(command).tokens[k]))
        => /\ bash_result.msg = TildeMessage
           /\ run_calls = 0

\* C26: _cat_file_impl never returns more than 200 lines of the file: for
\* all line_start and line_end, the defaults 0 and 200 included, it returns
\* the error or at most 200 lines.
C26_AtMost200Lines ==
    cat_result.kind = "content" => Len(cat_result.lines) <= 200

\* C27: when the exit code of the runner is not 0 and stdout contains both
\* `failed` and `passed`, the detail of the TestResult is the count summary
\* `N failed, M passed` contained in stdout, whatever text precedes it.
C27_DetailIsCountSummary ==
    (/\ VerdictReturned
     /\ returncode # 0
     /\ Contains(PyLower(stdout), FAILED)
     /\ Contains(PyLower(stdout), PASSED)
     /\ Contains(stdout, ThreeFailedTwoPassed))
        => result.verdict.details = ThreeFailedTwoPassed

\* C28: the output of a say tool call is never yielded as a
\* tool_call_output event and the output of every other tool call is
\* yielded as exactly one, for every interleaving of the tool_call_item and
\* tool_call_output_item events.
C28_SayOutputsSuppressed ==
    \A i \in arrived : emitted[i] = IF calls[i] = "say" THEN 0 ELSE 1

\* C29: after any sequence of create_script and update_script, no stored
\* script has a file input whose value is the filepath of one of its
\* outputs.
C29_InputsDifferFromOutputs ==
    \A id \in ScriptIds :
        scripts[id].stored
            => \A i \in 1..Len(scripts[id].inputs) :
                  (scripts[id].inputs[i].type = "file" /\ scripts[id].inputs[i].value # "None")
                      => \A o \in 1..Len(scripts[id].outputs) :
                            scripts[id].outputs[o] # scripts[id].inputs[i].value

\* the entry of the argument object under the name of the first parameter
\* of run holds the fields of a Point
OwnEntryGiven ==
    /\ kwargs.kind # "none"
    /\ Entry(argument_object, signature[1].name).t = "map"
    /\ Construct(PointFields, Entry(argument_object, signature[1].name)) # ValidationError
    /\ HasKey(argument_object, Options)

\* C30: a parameter p of run whose type is a Pydantic model is constructed
\* from the entry of the argument object keyed by p's own name, whatever the
\* class is called: {p: {fields}} yields an instance built from those fields.
C30_BuiltFromOwnEntry ==
    OwnEntryGiven
        => /\ kwargs.kind = "call"
           /\ Entry(kwargs.kw, signature[1].name)
                 = Construct(PointFields, Entry(argument_object, signature[1].name))

====
